---- MODULE Spec2Model ----
(***************************************************************************)
(* State-machine model of src/app.js: an Express server whose handlers are *)
(* thin wrappers around calls to an external relational store.  Every      *)
(* `await supabase...` of a handler is one atomic step on the store; the   *)
(* synchronous code between two awaits belongs to the step that follows    *)
(* the earlier await.  Requests are served concurrently (one slot each).   *)
(***************************************************************************)
EXTENDS Integers, Sequences, FiniteSets, TLC

VARIABLES users, courses, enrollments, certificates, discussions, now, req

vars == <<users, courses, enrollments, certificates, discussions, now, req>>

store == <<users, courses, enrollments, certificates, discussions>>

----------------------------------------------------------------------------
(* Bounds of the model *)

MaxReqs == 1
MaxUsers == 2
MaxCourses == 1
MaxEnrollReqs == 2
MaxEnrollments == 2
MaxCertificates == 1
MaxDiscussions == 1
MaxActivityRows == 6
MaxStamp == 2
TicksPerMs == 2
MaxTime == 1
TokenTTL == 1

----------------------------------------------------------------------------
(* Values *)

JWT_SECRET == "edrwanda"

Undefined == "undefined"

Nil == [nil |-> TRUE]

NoUser == [id |-> 0, email |-> Undefined, password |-> Nil, name |-> Undefined, role |-> Undefined]

NoToken == [id |-> 0, sig |-> "none", iat |-> 0, exp |-> 0]

StoreError == "store error"

Emails == {"a@x", "b@x"}
Passwords == {"pw1", "pw2"}
RegisterPasswords == {"pw1", Undefined}
Salts == {"s1"}
Names == {"n"}
BodyRoles == {Undefined, "instructor", "admin"}
SeedEmails == <<"a@x", "b@x", "c@x", "d@x">>

\* mutant of Sign: expiresIn applied as an absolute time of 0 seconds
SignExpired(id, t) == [id |-> id, sig |-> JWT_SECRET, iat |-> t, exp |-> t]

\* jwt.sign({ id }, JWT_SECRET, { expiresIn: '30d' }) issued at time t
Sign(id, t) == [id |-> id, sig |-> JWT_SECRET, iat |-> t, exp |-> t + TokenTTL]

\* mutant of Verify: ignoreExpiration
VerifyNoExpiry(tok, t) == tok.sig = JWT_SECRET

\* jwt.verify(token, JWT_SECRET) at time t: signature and expiry
Verify(tok, t) == tok.sig = JWT_SECRET /\ t < tok.exp

\* bcrypt.hash(password, 10) with the salt it draws
Hash(p, salt) == [salt |-> salt, digest |-> <<salt, p>>]

\* bcrypt.compare(password, hash)
Compare(p, h) == Hash(p, h.salt) = h

\* const { ..., role = 'student' } = req.body
RoleOrDefault(role) == IF role = Undefined THEN "student" ELSE role

----------------------------------------------------------------------------
(* Requests *)

IdleReq == [pc |-> "idle", kind |-> "none", token |-> NoToken, user |-> NoUser,
            body |-> Nil, local |-> Nil, at |-> 0, fault |-> FALSE,
            status |-> 0, error |-> "", data |-> <<>>]

\* res.status(s).json({ error: e })
Fail(q, s, e) == [q EXCEPT !.pc = "done", !.status = s, !.error = e]

\* a store call of the request returned { error }: the handler's answer to it
Fault(q, s, e) == [Fail(q, s, e) EXCEPT !.fault = TRUE]

\* res.status(s).json(d); d is wrapped in a tuple, <<>> standing for undefined
Reply(q, s, d) == [q EXCEPT !.pc = "done", !.status = s, !.data = d]

Init ==
    /\ users = <<>>
    /\ courses = <<>>
    /\ enrollments = <<>>
    /\ certificates = <<>>
    /\ discussions = <<>>
    /\ now = 0
    /\ req = [r \in 1..MaxReqs |-> IdleReq]

\* the store's clock advances
Tick ==
    /\ now < MaxTime
    /\ now' = now + 1
    /\ UNCHANGED <<store, req>>

\* slots are taken in order: slot r is used only while slot r - 1 is busy
MayStart(r) == IF r = 1 THEN TRUE ELSE req[r - 1].pc # "idle"

\* the client has read the response; the slot serves the next request
Recycle(r) ==
    /\ req[r].pc = "done"
    /\ req' = [req EXCEPT ![r] = IdleReq]
    /\ UNCHANGED <<store, now>>

----------------------------------------------------------------------------
(* POST /api/auth/register *)

\* the store's uniqueness constraint on users.email
EmailUnique(email) == \A i \in 1..Len(users) : users[i].email # email

Register(r, email, password, name, role) ==
    /\ req[r].pc = "idle"
    /\ LET q == [IdleReq EXCEPT !.kind = "register",
                    !.body = [email |-> email, password |-> password,
                              name |-> name, role |-> role]]
       IN IF password = Undefined
          THEN req' = [req EXCEPT ![r] = Fail(q, 400, "Illegal arguments")]
          ELSE \E salt \in Salts :
                 req' = [req EXCEPT ![r] = [q EXCEPT !.pc = "insertUser",
                            !.local = [hashedPassword |-> Hash(password, salt)]]]
    /\ UNCHANGED <<store, now>>

UserInsert(r) ==
    /\ req[r].pc = "insertUser"
    /\ LET q == req[r]
           row == [id |-> Len(users) + 1, email |-> q.body.email,
                   password |-> q.local.hashedPassword, name |-> q.body.name,
                   role |-> RoleOrDefault(q.body.role)]
       IN \/ /\ req' = [req EXCEPT ![r] = Fault(q, 400, StoreError)]
             /\ UNCHANGED users
          \/ /\ EmailUnique(q.body.email)
             /\ Len(users) < MaxUsers
             /\ users' = Append(users, row)
             /\ req' = [req EXCEPT ![r] = Reply(q, 201,
                          <<[user |-> [id |-> row.id, name |-> row.name,
                                       email |-> row.email, role |-> row.role],
                             token |-> Sign(row.id, now)]>>)]
    /\ UNCHANGED <<courses, enrollments, certificates, discussions, now>>

----------------------------------------------------------------------------
(* POST /api/auth/login *)

Login(r, email, password) ==
    /\ req[r].pc = "idle"
    /\ req' = [req EXCEPT ![r] = [IdleReq EXCEPT !.kind = "login", !.pc = "findUser",
                  !.body = [email |-> email, password |-> password]]]
    /\ UNCHANGED <<store, now>>

LoginFind(r) ==
    /\ req[r].pc = "findUser"
    /\ LET q == req[r]
           rows == SelectSeq(users, LAMBDA u : u.email = q.body.email)
       IN \/ req' = [req EXCEPT ![r] = Fault(q, 401, "Invalid credentials")]
          \/ /\ Len(rows) # 1
             /\ req' = [req EXCEPT ![r] = Fail(q, 401, "Invalid credentials")]
          \/ /\ Len(rows) = 1
             /\ req' = [req EXCEPT ![r] =
                   IF Compare(q.body.password, rows[1].password)
                   THEN Reply(q, 200,
                          <<[user |-> [id |-> rows[1].id, name |-> rows[1].name,
                                       email |-> rows[1].email, role |-> rows[1].role],
                             token |-> Sign(rows[1].id, now)]>>)
                   ELSE Fail(q, 401, "Invalid credentials")]
    /\ UNCHANGED <<store, now>>

----------------------------------------------------------------------------
(* Middleware: authenticate, isInstructor *)

\* mutant of IsInstructor: refuses students only
IsInstructorNotStudent(q) == q.user.role # "student"

\* const isInstructor = (req, res, next) => ...: TRUE when next() is called
IsInstructor(q) == q.user.role = "instructor"

\* the handler's code up to its first await, once the middlewares called next()
Dispatch(q) ==
    CASE q.kind = "createCourse" ->
            IF IsInstructor(q) THEN [q EXCEPT !.pc = "insertCourse"]
            ELSE Fail(q, 403, "Instructor access required")
      [] q.kind = "enroll" -> [q EXCEPT !.pc = "checkEnrolled"]
      [] q.kind = "progress" -> [q EXCEPT !.pc = "updateProgress"]
      [] q.kind = "stats" -> [q EXCEPT !.pc = "statsActive"]
      [] q.kind = "activity" -> [q EXCEPT !.pc = "activityEnrollments"]

\* a request to a route behind `authenticate` arrives: lines 26-31, up to the
\* await of the user lookup
Authenticate(r, kind, tok, body) ==
    /\ req[r].pc = "idle"
    /\ LET q == [IdleReq EXCEPT !.kind = kind, !.token = tok, !.body = body, !.at = now]
       IN req' = [req EXCEPT ![r] =
             IF tok = NoToken THEN Fail(q, 401, "Access denied")
             ELSE IF ~Verify(tok, now) THEN Fail(q, 400, "Invalid token")
             ELSE [q EXCEPT !.pc = "lookup"]]
    /\ UNCHANGED <<store, now>>

\* the user lookup returns: lines 32-41, then the next middleware or handler
AuthLookup(r) ==
    /\ req[r].pc = "lookup"
    /\ LET q == req[r]
           rows == SelectSeq(users, LAMBDA u : u.id = q.token.id)
       IN \/ req' = [req EXCEPT ![r] = Fault(q, 401, "Invalid token")]
          \/ /\ Len(rows) # 1
             /\ req' = [req EXCEPT ![r] = Fail(q, 401, "Invalid token")]
          \/ /\ Len(rows) = 1
             /\ req' = [req EXCEPT ![r] = Dispatch([q EXCEPT !.user = rows[1]])]
    /\ UNCHANGED <<store, now>>

\* the bearer tokens a client may present: none, one signed with the server's
\* secret (issued at any time, for any id), one signed with another secret
ServerTokens == {Sign(i, t) : i \in 1..MaxUsers, t \in 0..MaxTime}

ForgedTokens == {[id |-> 1, sig |-> "other", iat |-> MaxTime, exp |-> MaxTime + TokenTTL]}

Tokens == {NoToken} \cup ServerTokens \cup ForgedTokens

----------------------------------------------------------------------------
(* POST /api/courses *)

CourseBody == [title |-> "t", description |-> "d", category |-> "c", level |-> "l"]

CourseInsert(r) ==
    /\ req[r].pc = "insertCourse"
    /\ LET q == req[r]
           row == [id |-> Len(courses) + 1, title |-> q.body.title,
                   description |-> q.body.description, category |-> q.body.category,
                   level |-> q.body.level, instructor_id |-> q.user.id]
       IN \/ /\ req' = [req EXCEPT ![r] = Fault(q, 400, StoreError)]
             /\ UNCHANGED courses
          \/ /\ Len(courses) < MaxCourses
             /\ courses' = Append(courses, row)
             /\ req' = [req EXCEPT ![r] = Reply(q, 201, <<row>>)]
    /\ UNCHANGED <<users, enrollments, certificates, discussions, now>>

----------------------------------------------------------------------------
(* Specification Spec: register and login on a store that starts empty *)

Next ==
    \/ Tick
    \/ \E r \in 1..MaxReqs :
         \/ Recycle(r)
         \/ /\ MayStart(r)
            /\ \E e \in Emails, p \in RegisterPasswords, n \in Names, role \in BodyRoles :
                 Register(r, e, p, n, role)
         \/ UserInsert(r)
         \/ /\ MayStart(r)
            /\ \E e \in Emails, p \in Passwords : Login(r, e, p)
         \/ LoginFind(r)

Spec == Init /\ [][Next]_vars

----------------------------------------------------------------------------
(* Specification SpecCourses: create-course requests, with any users table *)

StoredRoles == {"student", "instructor", "admin"}

\* the users tables that registrations can have produced
UserTables ==
    UNION {{[i \in 1..n |-> [id |-> i, email |-> SeedEmails[i],
                              password |-> Hash("pw1", "s1"), name |-> "n",
                              role |-> roles[i]]] :
              roles \in [1..n -> StoredRoles]} : n \in 0..MaxUsers}

InitCourses ==
    /\ users \in UserTables
    /\ courses = <<>>
    /\ enrollments = <<>>
    /\ certificates = <<>>
    /\ discussions = <<>>
    /\ now = 0
    /\ req = [r \in 1..MaxReqs |-> IdleReq]

NextCourses ==
    \/ Tick
    \/ \E r \in 1..MaxReqs :
         \/ Recycle(r)
         \/ /\ MayStart(r)
            /\ \E tok \in Tokens : Authenticate(r, "createCourse", tok, CourseBody)
         \/ AuthLookup(r)
         \/ CourseInsert(r)

SpecCourses == InitCourses /\ [][NextCourses]_vars

----------------------------------------------------------------------------
(* POST /api/courses/:id/enroll *)

\* mutant of SameEnrollment: the user filter put on the id column
SameEnrollmentIdColumn(e, userId, courseId) == e.id = userId /\ e.course_id = courseId

\* .eq('user_id', req.user.id).eq('course_id', courseId)
SameEnrollment(e, userId, courseId) == e.user_id = userId /\ e.course_id = courseId

\* lines 180-190: the existence check returns
EnrollCheck(r) ==
    /\ req[r].pc = "checkEnrolled"
    /\ LET q == req[r]
           existing == SelectSeq(enrollments,
                              LAMBDA e : SameEnrollment(e, q.user.id, q.body.courseId))
       IN \/ req' = [req EXCEPT ![r] = Fault(q, 400, StoreError)]
          \/ /\ Len(existing) > 0
             /\ req' = [req EXCEPT ![r] = Fail(q, 400, "Already enrolled")]
          \/ /\ Len(existing) = 0
             /\ req' = [req EXCEPT ![r] = [q EXCEPT !.pc = "insertEnrollment"]]
    /\ UNCHANGED <<store, now>>

\* mutant of EnrollInsert: an upsert on (user_id, course_id)
EnrollInsertUpsert(r) ==
    /\ req[r].pc = "insertEnrollment"
    /\ LET q == req[r]
           row == [id |-> Len(enrollments) + 1, user_id |-> q.user.id,
                   course_id |-> q.body.courseId, progress |-> 0, created_at |-> now]
           old == SelectSeq(enrollments, LAMBDA e : e.user_id = q.user.id
                                                  /\ e.course_id = q.body.courseId)
       IN \/ /\ req' = [req EXCEPT ![r] = Fault(q, 400, StoreError)]
             /\ UNCHANGED enrollments
          \/ /\ Len(old) > 0
             /\ UNCHANGED enrollments
             /\ req' = [req EXCEPT ![r] = Reply(q, 201, <<old[1]>>)]
          \/ /\ Len(old) = 0
             /\ Len(enrollments) < MaxEnrollments
             /\ enrollments' = Append(enrollments, row)
             /\ req' = [req EXCEPT ![r] = Reply(q, 201, <<row>>)]
    /\ UNCHANGED <<users, courses, certificates, discussions, now>>

\* lines 192-203: the insert returns
EnrollInsert(r) ==
    /\ req[r].pc = "insertEnrollment"
    /\ LET q == req[r]
           row == [id |-> Len(enrollments) + 1, user_id |-> q.user.id,
                   course_id |-> q.body.courseId, progress |-> 0, created_at |-> now]
       IN \/ /\ req' = [req EXCEPT ![r] = Fault(q, 400, StoreError)]
             /\ UNCHANGED enrollments
          \/ /\ Len(enrollments) < MaxEnrollments
             /\ enrollments' = Append(enrollments, row)
             /\ req' = [req EXCEPT ![r] = Reply(q, 201, <<row>>)]
    /\ UNCHANGED <<users, courses, certificates, discussions, now>>

----------------------------------------------------------------------------
(* PUT /api/enrollments/:id/progress *)

\* mutant of OwnEnrollment: the owner filter left out
OwnEnrollmentById(e, enrollmentId, userId) == e.id = enrollmentId

\* .eq('id', enrollmentId).eq('user_id', req.user.id)
OwnEnrollment(e, enrollmentId, userId) == e.id = enrollmentId /\ e.user_id = userId

ProgressUpdate(r) ==
    /\ req[r].pc = "updateProgress"
    /\ LET q == req[r]
           hit(e) == OwnEnrollment(e, q.body.enrollmentId, q.user.id)
           updated == [i \in 1..Len(enrollments) |->
                          IF hit(enrollments[i])
                          THEN [enrollments[i] EXCEPT !.progress = q.body.progress]
                          ELSE enrollments[i]]
           data == SelectSeq(updated, hit)
       IN \/ /\ req' = [req EXCEPT ![r] = Fault(q, 400, StoreError)]
             /\ UNCHANGED enrollments
          \/ /\ enrollments' = updated
             /\ req' = [req EXCEPT ![r] =
                   Reply(q, 200, IF Len(data) > 0 THEN <<data[1]>> ELSE <<>>)]
    /\ UNCHANGED <<users, courses, certificates, discussions, now>>

----------------------------------------------------------------------------
(* Specifications SpecSeq and SpecEnroll: enroll requests of two registered *)
(* users, served one at a time (SpecSeq) or concurrently (SpecEnroll)       *)

SeedUser(i, role) == [id |-> i, email |-> SeedEmails[i], password |-> Hash("pw1", "s1"),
                      name |-> "n", role |-> role]

SeedUsers == <<SeedUser(1, "student"), SeedUser(2, "instructor")>>

SeedCourses == <<[id |-> 1, title |-> "t", description |-> "d", category |-> "c",
                  level |-> "l", instructor_id |-> 2]>>

\* the tokens the two users hold
SeedTokens == {Sign(i, 0) : i \in 1..Len(SeedUsers)}

EnrollCourseIds == {SeedCourses[i].id : i \in 1..Len(SeedCourses)}

InitEnroll ==
    /\ users = SeedUsers
    /\ courses = SeedCourses
    /\ enrollments = <<>>
    /\ certificates = <<>>
    /\ discussions = <<>>
    /\ now = 0
    /\ req = [r \in 1..MaxEnrollReqs |-> IdleReq]

InFlight(r) == req[r].pc \notin {"idle", "done"}

EnrollSteps(r) ==
    \/ Recycle(r)
    \/ AuthLookup(r)
    \/ EnrollCheck(r)
    \/ EnrollInsert(r)

NextEnroll ==
    \E r \in 1..MaxEnrollReqs :
       \/ /\ MayStart(r)
          /\ \E tok \in SeedTokens, c \in EnrollCourseIds :
               Authenticate(r, "enroll", tok, [courseId |-> c])
       \/ EnrollSteps(r)

SpecEnroll == InitEnroll /\ [][NextEnroll]_vars

\* each request completes before the next starts
NextSeq ==
    \E r \in 1..MaxEnrollReqs :
       \/ /\ \A o \in 1..MaxEnrollReqs : ~InFlight(o)
          /\ \E tok \in SeedTokens, c \in EnrollCourseIds :
               Authenticate(r, "enroll", tok, [courseId |-> c])
       \/ EnrollSteps(r)

SpecSeq == InitEnroll /\ [][NextSeq]_vars

----------------------------------------------------------------------------
(* Specification SpecProgress: progress updates on any enrollments table *)

ProgressValues == {50, 100}

\* enrollments of the two users, each row in a course of its own
EnrollmentTables ==
    UNION {{[i \in 1..n |-> [id |-> i, user_id |-> owner[i], course_id |-> i,
                              progress |-> 0, created_at |-> 0]] :
              owner \in [1..n -> 1..Len(SeedUsers)]} : n \in 0..MaxEnrollments}

InitProgress ==
    /\ users = SeedUsers
    /\ courses = SeedCourses
    /\ enrollments \in EnrollmentTables
    /\ certificates = <<>>
    /\ discussions = <<>>
    /\ now = 0
    /\ req = [r \in 1..MaxReqs |-> IdleReq]

NextProgress ==
    \E r \in 1..MaxReqs :
       \/ /\ MayStart(r)
          /\ \E tok \in SeedTokens, e \in 1..MaxEnrollments, p \in ProgressValues :
               Authenticate(r, "progress", tok, [enrollmentId |-> e, progress |-> p])
       \/ Recycle(r)
       \/ AuthLookup(r)
       \/ ProgressUpdate(r)

SpecProgress == InitProgress /\ [][NextProgress]_vars

----------------------------------------------------------------------------
(* GET /api/users/stats *)

\* the { count } of a select('*', { count: 'exact' }): <<n>>, or <<>> for the
\* null the client returns beside { error }
Count(rows) == <<Len(rows)>>

RECURSIVE Sum(_)
Sum(ps) == IF ps = <<>> THEN 0 ELSE ps[1] + Sum(Tail(ps))

\* Math.round(sum / length) for a non-negative sum: halves round up
AverageProgress(ps) ==
    IF Len(ps) > 0 THEN (2 * Sum(ps) + Len(ps)) \div (2 * Len(ps)) ELSE 0

\* lines 261-265; the returned error is not read
StatsActive(r) ==
    /\ req[r].pc = "statsActive"
    /\ LET q == req[r]
       IN \/ req' = [req EXCEPT ![r] = [q EXCEPT !.pc = "statsProgress", !.fault = TRUE,
                        !.local = [activeCourses |-> <<>>]]]
          \/ req' = [req EXCEPT ![r] = [q EXCEPT !.pc = "statsProgress",
                        !.local = [activeCourses |->
                            Count(SelectSeq(enrollments,
                                  LAMBDA e : e.user_id = q.user.id /\ e.progress < 100))]]]
    /\ UNCHANGED <<store, now>>

\* lines 268-275; progressData is null on error and .length throws
StatsProgress(r) ==
    /\ req[r].pc = "statsProgress"
    /\ LET q == req[r]
           rows == SelectSeq(enrollments, LAMBDA e : e.user_id = q.user.id)
           progressData == [i \in 1..Len(rows) |-> rows[i].progress]
       IN \/ req' = [req EXCEPT ![r] = Fault(q, 500, "TypeError")]
          \/ req' = [req EXCEPT ![r] = [q EXCEPT !.pc = "statsCertificates",
                        !.local = [activeCourses |-> q.local.activeCourses,
                                   averageProgress |-> AverageProgress(progressData)]]]
    /\ UNCHANGED <<store, now>>

\* lines 278-281; the returned error is not read
StatsCertificates(r) ==
    /\ req[r].pc = "statsCertificates"
    /\ LET q == req[r]
           with(c) == [activeCourses |-> q.local.activeCourses,
                       averageProgress |-> q.local.averageProgress,
                       certificates |-> c]
       IN \/ req' = [req EXCEPT ![r] = [q EXCEPT !.pc = "statsDiscussions", !.fault = TRUE,
                        !.local = with(<<>>)]]
          \/ req' = [req EXCEPT ![r] = [q EXCEPT !.pc = "statsDiscussions",
                        !.local = with(Count(SelectSeq(certificates,
                                             LAMBDA c : c.user_id = q.user.id)))]]
    /\ UNCHANGED <<store, now>>

\* lines 284-294; the returned error is not read
StatsDiscussions(r) ==
    /\ req[r].pc = "statsDiscussions"
    /\ LET q == req[r]
           with(d) == [activeCourses |-> q.local.activeCourses,
                       averageProgress |-> q.local.averageProgress,
                       certificates |-> q.local.certificates,
                       discussions |-> d]
       IN \/ req' = [req EXCEPT ![r] = [Reply(q, 200, <<with(<<>>)>>) EXCEPT !.fault = TRUE]]
          \/ req' = [req EXCEPT ![r] =
                Reply(q, 200, <<with(Count(SelectSeq(discussions,
                                           LAMBDA d : d.user_id = q.user.id)))>>)]
    /\ UNCHANGED <<store, now>>

----------------------------------------------------------------------------
(* Specification SpecStats: stats requests on any tables of the two users *)

StatsProgressValues == {0, 100, 150}

StatsEnrollmentTables ==
    UNION {{[i \in 1..n |-> [id |-> i, user_id |-> owner[i], course_id |-> i,
                              progress |-> progress[i], created_at |-> 0]] :
              owner \in [1..n -> 1..Len(SeedUsers)],
              progress \in [1..n -> StatsProgressValues]} : n \in 0..MaxEnrollments}

StatsCertificateTables ==
    UNION {{[i \in 1..n |-> [id |-> i, user_id |-> owner[i], course_id |-> i,
                              issued_at |-> 0]] :
              owner \in [1..n -> 1..Len(SeedUsers)]} : n \in 0..MaxCertificates}

StatsDiscussionTables ==
    UNION {{[i \in 1..n |-> [id |-> i, user_id |-> owner[i]]] :
              owner \in [1..n -> 1..Len(SeedUsers)]} : n \in 0..MaxDiscussions}

InitStats ==
    /\ users = SeedUsers
    /\ courses = SeedCourses
    /\ enrollments \in StatsEnrollmentTables
    /\ certificates \in StatsCertificateTables
    /\ discussions \in StatsDiscussionTables
    /\ now = 0
    /\ req = [r \in 1..MaxReqs |-> IdleReq]

NextStats ==
    \E r \in 1..MaxReqs :
       \/ /\ MayStart(r)
          /\ \E tok \in SeedTokens : Authenticate(r, "stats", tok, Nil)
       \/ Recycle(r)
       \/ AuthLookup(r)
       \/ StatsActive(r)
       \/ StatsProgress(r)
       \/ StatsCertificates(r)
       \/ StatsDiscussions(r)

SpecStats == InitStats /\ [][NextStats]_vars

----------------------------------------------------------------------------
(* GET /api/users/activity *)

\* .limit(5) of both queries
QueryLimit == 5

\* .slice(0, 5)
ActivityLimit == 5

\* new Date(timestamp): the store's timestamps are finer than the millisecond
\* a Date holds; the digits below it are dropped
DateMs(ts) == ts \div TicksPerMs

\* course:courses(title): the joined course, null when the row has none
JoinCourse(courseId) ==
    LET m == SelectSeq(courses, LAMBDA c : c.id = courseId)
    IN IF Len(m) > 0 THEN [title |-> m[1].title] ELSE Nil

\* .order(column, { ascending: false }).limit(k) over the set S of
\* [id, ts, item]: every order the store may return, rows of equal ts in any
\* order
RECURSIVE OrderedDesc(_, _)
OrderedDesc(S, k) ==
    IF k = 0 \/ S = {} THEN {<<>>}
    ELSE UNION {{<<x>> \o t : t \in OrderedDesc(S \ {x}, k - 1)} :
                  x \in {y \in S : \A z \in S : z.ts <= y.ts}}

Items(s) == [i \in 1..Len(s) |-> s[i].item]

\* select('created_at, course:courses(title)').eq('user_id', userId)
\*   .order('created_at', { ascending: false }).limit(5)
RecentEnrollments(userId) ==
    LET S == {[id |-> enrollments[i].id, ts |-> enrollments[i].created_at,
               item |-> [created_at |-> enrollments[i].created_at,
                         course |-> JoinCourse(enrollments[i].course_id)]] :
                i \in {j \in 1..Len(enrollments) : enrollments[j].user_id = userId}}
    IN {Items(s) : s \in OrderedDesc(S, QueryLimit)}

\* select('issued_at, course:courses(title)').eq('user_id', userId)
\*   .order('issued_at', { ascending: false }).limit(5)
RecentCertificates(userId) ==
    LET S == {[id |-> certificates[i].id, ts |-> certificates[i].issued_at,
               item |-> [issued_at |-> certificates[i].issued_at,
                         course |-> JoinCourse(certificates[i].course_id)]] :
                i \in {j \in 1..Len(certificates) : certificates[j].user_id = userId}}
    IN {Items(s) : s \in OrderedDesc(S, QueryLimit)}

\* item.progress === 100, on an item of the first query
IsCompleted(item) == "progress" \in DOMAIN item /\ item.progress = 100

\* lines 323-329
CourseItem(item) ==
    [type |-> IF IsCompleted(item) THEN "course_completed" ELSE "course_started",
     message |-> <<IF IsCompleted(item) THEN "Completed course" ELSE "Started course",
                   item.course.title>>,
     timestamp |-> item.created_at]

\* lines 330-334
CertificateItem(item) ==
    [type |-> "certificate_earned",
     message |-> <<"Earned certificate for", item.course.title>>,
     timestamp |-> item.issued_at]

\* mutant of NotAfter: the comparator's operands exchanged
NotAfterAscending(a, b) == DateMs(a.timestamp) - DateMs(b.timestamp) <= 0

\* (a, b) => new Date(b.timestamp) - new Date(a.timestamp) is <= 0
NotAfter(a, b) == DateMs(b.timestamp) - DateMs(a.timestamp) <= 0

\* Array.prototype.sort with that comparator; the sort is stable
RECURSIVE SortByDate(_)
SortByDate(s) ==
    IF s = <<>> THEN <<>>
    ELSE LET sorted == SortByDate(SubSeq(s, 1, Len(s) - 1))
             x == s[Len(s)]
             k == Cardinality({i \in 1..Len(sorted) : NotAfter(sorted[i], x)})
         IN SubSeq(sorted, 1, k) \o <<x>> \o SubSeq(sorted, k + 1, Len(sorted))

\* .slice(0, n)
Slice(s, n) == SubSeq(s, 1, IF Len(s) < n THEN Len(s) ELSE n)

\* lines 322-336
Activities(courseActivity, certificateActivity) ==
    Slice(SortByDate([i \in 1..Len(courseActivity) |-> CourseItem(courseActivity[i])]
                     \o [i \in 1..Len(certificateActivity) |->
                            CertificateItem(certificateActivity[i])]),
          ActivityLimit)

\* lines 306-311; the returned error is not read, the data is null then
ActivityEnrollments(r) ==
    /\ req[r].pc = "activityEnrollments"
    /\ LET q == req[r]
       IN \/ req' = [req EXCEPT ![r] = [q EXCEPT !.pc = "activityCertificates",
                        !.fault = TRUE, !.local = [courseActivity |-> <<>>]]]
          \/ \E res \in RecentEnrollments(q.user.id) :
               req' = [req EXCEPT ![r] = [q EXCEPT !.pc = "activityCertificates",
                          !.local = [courseActivity |-> <<res>>]]]
    /\ UNCHANGED <<store, now>>

\* lines 314-341; .map on null and .title on a null course throw
ActivityCertificates(r) ==
    /\ req[r].pc = "activityCertificates"
    /\ LET q == req[r]
           ca == q.local.courseActivity
       IN \/ req' = [req EXCEPT ![r] = Fault(q, 500, "TypeError")]
          \/ \E res \in RecentCertificates(q.user.id) :
               req' = [req EXCEPT ![r] =
                  IF \/ ca = <<>>
                     \/ \E i \in 1..Len(ca[1]) : ca[1][i].course = Nil
                     \/ \E i \in 1..Len(res) : res[i].course = Nil
                  THEN Fail(q, 500, "TypeError")
                  ELSE Reply(q, 200, <<Activities(ca[1], res)>>)]
    /\ UNCHANGED <<store, now>>

----------------------------------------------------------------------------
(* Specification SpecActivity: activity requests on any enrollments and     *)
(* certificates of user 1, and user 1 completing the first enrollment       *)

ActivityCourses ==
    [i \in 1..MaxActivityRows |->
        [id |-> i, title |-> <<"title", i>>, description |-> "d", category |-> "c",
         level |-> "l", instructor_id |-> 2]]

\* the timestamps of n rows inserted one after the other
Stamps(n) == {st \in [1..n -> 0..MaxStamp] : \A i \in 1..(n - 1) : st[i] <= st[i + 1]}

ActivityEnrollmentTables ==
    UNION {{[i \in 1..n |-> [id |-> i, user_id |-> 1, course_id |-> i, progress |-> 0,
                              created_at |-> st[i]]] : st \in Stamps(n)} :
             n \in 0..MaxActivityRows}

ActivityCertificateTables ==
    UNION {{[i \in 1..n |-> [id |-> i, user_id |-> 1, course_id |-> i,
                              issued_at |-> st[i]]] : st \in Stamps(n)} :
             n \in 0..MaxCertificates}

InitActivity ==
    /\ users = SeedUsers
    /\ courses = ActivityCourses
    /\ enrollments \in ActivityEnrollmentTables
    /\ certificates \in ActivityCertificateTables
    /\ discussions = <<>>
    /\ now = MaxStamp
    /\ req = <<IdleReq>>

\* the tokens the two users hold, issued at the time the requests arrive
ActivityTokens == {Sign(i, MaxStamp) : i \in 1..Len(SeedUsers)}

NextActivity ==
    \/ \E tok \in ActivityTokens : Authenticate(1, "activity", tok, Nil)
    \/ Authenticate(1, "progress", Sign(1, MaxStamp), [enrollmentId |-> 1, progress |-> 100])
    \/ Recycle(1)
    \/ AuthLookup(1)
    \/ ProgressUpdate(1)
    \/ ActivityEnrollments(1)
    \/ ActivityCertificates(1)

SpecActivity == InitActivity /\ [][NextActivity]_vars

----------------------------------------------------------------------------
(* Claims about register, login and the middlewares *)

AuthedKinds == {"createCourse", "enroll", "progress", "stats", "activity"}

HandlerPcs == {"insertCourse", "checkEnrolled", "insertEnrollment", "updateProgress",
               "statsActive", "statsProgress", "statsCertificates", "statsDiscussions",
               "activityEnrollments", "activityCertificates"}

Slots == DOMAIN req

UserRows == {users[i] : i \in 1..Len(users)}

\* the request has been answered with status s and { error: e }
Answered(q, s, e) == q.pc = "done" /\ q.status = s /\ q.error = e

\* C3: on a route behind authenticate, a request without a token is answered
\* 401 "Access denied", one whose token fails signature or expiry verification
\* 400 "Invalid token", one whose user lookup fails or finds no row 401
\* "Invalid token"; only a request whose token verified and whose id resolved
\* to a users row goes on to the role guard and the handler, with req.user
\* that row; a rejected request takes no handler step and an answered request
\* is answered once.
C3_AuthenticateGate ==
    [][\A r \in Slots :
         LET q == req[r]
             q2 == req'[r]
             tok == q2.token
         IN (q2 # q /\ q2.kind \in AuthedKinds) =>
              /\ q.pc = "idle" =>
                   /\ tok = NoToken => Answered(q2, 401, "Access denied")
                   /\ (tok # NoToken /\ ~(tok.sig = JWT_SECRET /\ now < tok.exp))
                        => Answered(q2, 400, "Invalid token")
                   /\ (tok # NoToken /\ tok.sig = JWT_SECRET /\ now < tok.exp)
                        => q2.pc = "lookup" /\ q2.status = 0
                   /\ q2.user = NoUser
                   /\ store' = store
              /\ q.pc = "lookup" =>
                   /\ store' = store
                   /\ \/ /\ Answered(q2, 401, "Invalid token")
                         /\ q2.user = NoUser
                         /\ q.fault \/ q2.fault \/ ~\E u \in UserRows : u.id = q.token.id
                      \/ /\ ~q2.fault
                         /\ q2.user \in UserRows
                         /\ q2.user.id = q.token.id
                         /\ \/ q2.pc \in HandlerPcs /\ q2.status = 0
                            \/ q2.kind = "createCourse" /\ q2.status = 403
              /\ q.pc \in HandlerPcs =>
                   /\ q.user \in UserRows
                   /\ q.user.id = q.token.id
                   /\ q.token.sig = JWT_SECRET /\ q.at < q.token.exp
              /\ q.pc # "done"
       ]_vars

\* C3 witness: a request has passed authenticate and its handler has answered,
\* while the users table also lacks the row of some signed token's id
C3_Witness ==
    \E r \in Slots :
        /\ req[r].kind = "createCourse" /\ req[r].status = 201
        /\ req[r].user \in UserRows
        /\ Len(users) < MaxUsers

\* C4: a create-course request of a user whose role is not "instructor" is
\* answered 403 and never issues the course insert; every course row's
\* instructor_id is the id of a users row whose role is "instructor".
C4_InstructorOnlyCourses ==
    /\ \A r \in Slots :
         (req[r].kind = "createCourse" /\ req[r].user # NoUser
            /\ req[r].user.role # "instructor")
           => Answered(req[r], 403, "Instructor access required")
    /\ \A i \in 1..Len(courses) :
         \E u \in UserRows : u.id = courses[i].instructor_id /\ u.role = "instructor"

\* C4 witness: a non-instructor was refused while a course exists
C4_Witness ==
    \E r \in Slots :
        /\ Answered(req[r], 403, "Instructor access required")
        /\ req[r].user.role \in {"student", "admin"}
        /\ Len(courses) > 0

\* C6: a successful register (201, id I) leaves a users row with id I, its
\* email and a hash its password matches; rows are never changed afterwards;
\* a login whose email and password match a users row and whose lookup does
\* not fail is answered 200 with a token that jwt.verify accepts until its
\* expiry and whose id resolves to that row; neither request carries a token.
C6_RegisterThenLogin ==
    [][/\ \A i \in 1..Len(users) : Len(users') >= i /\ users'[i] = users[i]
       /\ \A r \in Slots :
            LET q == req[r]
                q2 == req'[r]
            IN /\ (q.pc = "insertUser" /\ q2.status = 201) =>
                    /\ q2.token = NoToken
                    /\ \E u \in {users'[i] : i \in 1..Len(users')} :
                         /\ u.id = q2.data[1].user.id
                         /\ u.email = q.body.email
                         /\ Compare(q.body.password, u.password)
               /\ (q.pc = "findUser" /\ q2.pc = "done" /\ ~q2.fault) =>
                    \A u \in UserRows :
                       (u.email = q.body.email /\ Compare(q.body.password, u.password)) =>
                          /\ q2.status = 200
                          /\ q2.token = NoToken
                          /\ q2.data[1].user.id = u.id
                          /\ LET t == q2.data[1].token
                             IN /\ t.sig = JWT_SECRET
                                /\ t.exp > now
                                /\ \A tau \in t.iat..(t.exp - 1) : Verify(t, tau)
                                /\ SelectSeq(users, LAMBDA x : x.id = t.id) = <<u>>
      ]_vars

\* C6 witness: a login with the registered credentials has been answered 200
C6_Witness ==
    \E r \in Slots :
        /\ req[r].kind = "login" /\ req[r].status = 200
        /\ \E u \in UserRows :
             u.email = req[r].body.email /\ u.id = req[r].data[1].token.id

\* C7: every users row has role "student" or "instructor", and the role of a
\* row never changes.
C7_RoleValidAndFixed ==
    [][/\ \A i \in 1..Len(users') : users'[i].role \in {"student", "instructor"}
       /\ \A i \in 1..Len(users) : users'[i].role = users[i].role
      ]_vars

----------------------------------------------------------------------------
(* Claims about enroll and progress-update *)

\* request q is an authenticated enroll request of user u for course c
EnrollOf(q, u, c) == q.kind = "enroll" /\ q.user.id = u /\ q.body.courseId = c

EnrollKeys == {<<u, c>> : u \in {users[i].id : i \in 1..Len(users)}, c \in EnrollCourseIds}

RowsOf(u, c) ==
    {i \in 1..Len(enrollments) : enrollments[i].user_id = u /\ enrollments[i].course_id = c}

\* C1: with requests served one at a time, once an enroll of user U for course
\* C has been answered 201, another enroll of U for C never reaches the insert
\* and is answered 400 "Already enrolled" whenever its existence check returns
\* without a store error (400 with the store's message otherwise); the table
\* holds at most one row per (user_id, course_id).
C1_SecondEnrollRejected ==
    /\ \A k \in EnrollKeys : Cardinality(RowsOf(k[1], k[2])) <= 1
    /\ \A r \in Slots :
         /\ req[r].pc = "insertEnrollment" =>
              RowsOf(req[r].user.id, req[r].body.courseId) = {}
         /\ (req[r].kind = "enroll" /\ req[r].pc = "done" /\ req[r].user # NoUser
               /\ ~req[r].fault /\ req[r].status # 201)
              => Answered(req[r], 400, "Already enrolled")
    /\ \A r1, r2 \in Slots :
         (r1 # r2 /\ req[r1].status = 201
            /\ EnrollOf(req[r1], req[r1].user.id, req[r1].body.courseId)
            /\ EnrollOf(req[r2], req[r1].user.id, req[r1].body.courseId))
           => /\ req[r2].status # 201
              /\ req[r2].pc = "done" => req[r2].status = 400
              /\ (req[r2].pc = "done" /\ ~req[r2].fault)
                   => Answered(req[r2], 400, "Already enrolled")

\* C1 witness: an enroll answered 201 and a later one of the same user for the
\* same course answered 400 "Already enrolled"
C1_Witness ==
    \E r1, r2 \in Slots :
        /\ r1 # r2
        /\ req[r1].status = 201
        /\ EnrollOf(req[r2], req[r1].user.id, req[r1].body.courseId)
        /\ EnrollOf(req[r1], req[r1].user.id, req[r1].body.courseId)
        /\ Answered(req[r2], 400, "Already enrolled")
        /\ Cardinality(RowsOf(req[r1].user.id, req[r1].body.courseId)) = 1

\* C2: the existence check and the insert are separate store calls and the
\* insert is unconditional: every enroll answered 201 has appended a row of
\* its own, so two interleaved enrolls of one user for one course that both
\* passed the check are both answered 201 and leave two rows for the pair.
C2_RaceInsertsTwice ==
    \A r1, r2 \in Slots :
       (req[r1].kind = "enroll" /\ req[r1].status = 201) =>
          LET row == req[r1].data[1]
          IN /\ row.id \in 1..Len(enrollments)
             /\ enrollments[row.id] = row
             /\ row.user_id = req[r1].user.id /\ row.course_id = req[r1].body.courseId
             /\ (r2 # r1 /\ req[r2].kind = "enroll" /\ req[r2].status = 201)
                  => req[r2].data[1].id # row.id

\* C2 witness: both requests of one user for one course were answered 201 and
\* the table holds two rows for the pair
C2_Witness ==
    \E r1, r2 \in Slots :
        /\ r1 # r2
        /\ req[r1].kind = "enroll" /\ req[r1].status = 201
        /\ req[r2].kind = "enroll" /\ req[r2].status = 201
        /\ req[r1].user.id = req[r2].user.id
        /\ req[r1].body.courseId = req[r2].body.courseId
        /\ Cardinality(RowsOf(req[r1].user.id, req[r1].body.courseId)) = 2

\* C5: a step changes the progress of an enrollment only if it is the update
\* of a progress request authenticated as the row's user_id and naming the
\* row's id; a progress request of another user, or naming an id no row has,
\* leaves the table unchanged and is answered neither 403 nor 404: 200 with an
\* undefined body when the update returns without a store error.
C5_ProgressOnlyByOwner ==
    [][/\ \A i \in 1..Len(enrollments) :
            /\ Len(enrollments') >= i
            /\ enrollments'[i].progress # enrollments[i].progress =>
                 \E r \in Slots :
                    /\ req[r].pc = "updateProgress" /\ req'[r].pc = "done"
                    /\ req[r].user.id = enrollments[i].user_id
                    /\ req[r].body.enrollmentId = enrollments[i].id
                    /\ enrollments'[i].progress = req[r].body.progress
       /\ \A r \in Slots :
            (req[r].pc = "updateProgress" /\ req'[r] # req[r]
               /\ ~\E i \in 1..Len(enrollments) :
                     /\ enrollments[i].id = req[r].body.enrollmentId
                     /\ enrollments[i].user_id = req[r].user.id)
              => /\ enrollments' = enrollments
                 /\ req'[r].pc = "done"
                 /\ req'[r].status \notin {403, 404}
                 /\ ~req'[r].fault => (req'[r].status = 200 /\ req'[r].data = <<>>)
      ]_vars

\* C5 witness: a progress request naming another user's enrollment has been
\* answered 200 with an undefined body and the row kept its progress
C5_Witness ==
    \E r \in Slots : \E i \in 1..Len(enrollments) :
        /\ req[r].kind = "progress" /\ req[r].status = 200 /\ req[r].data = <<>>
        /\ enrollments[i].id = req[r].body.enrollmentId
        /\ enrollments[i].user_id # req[r].user.id
        /\ enrollments[i].progress = 0

----------------------------------------------------------------------------
(* Claims about the dashboard *)

\* the answered activity requests, the list each got and the rows of its user
ActivityDone(q) == q.kind = "activity" /\ q.pc = "done" /\ q.status = 200

Ms(ts) == ts \div TicksPerMs

EnrollmentStamps(u) ==
    {<<"e", i>> : i \in {j \in 1..Len(enrollments) : enrollments[j].user_id = u}}

CertificateStamps(u) ==
    {<<"c", i>> : i \in {j \in 1..Len(certificates) : certificates[j].user_id = u}}

StampOf(src) ==
    IF src[1] = "e" THEN enrollments[src[2]].created_at ELSE certificates[src[2]].issued_at

CourseTypes == {"course_started", "course_completed"}

\* the list has at most 5 items, each from a row of the user, and a row is
\* left out only by a full list of items at least as recent (in milliseconds)
FiveMostRecent(L, u) ==
    LET rows == EnrollmentStamps(u) \cup CertificateStamps(u)
        at(S, v) == Cardinality({x \in S : Ms(StampOf(x)) = v})
        in(T, v) == Cardinality({i \in 1..Len(L) : L[i].type \in T /\ Ms(L[i].timestamp) = v})
    IN /\ Len(L) <= 5
       /\ Len(L) = IF Cardinality(rows) < 5 THEN Cardinality(rows) ELSE 5
       /\ \A v \in 0..Ms(MaxStamp) :
            /\ in(CourseTypes, v) <= at(EnrollmentStamps(u), v)
            /\ in({"certificate_earned"}, v) <= at(CertificateStamps(u), v)
            /\ in(CourseTypes \cup {"certificate_earned"}, v) < at(rows, v) =>
                 /\ Len(L) = 5
                 /\ \A i \in 1..Len(L) : Ms(L[i].timestamp) >= v

C9_CompletedWhenProgress100 ==
    \A r \in Slots :
       ActivityDone(req[r]) =>
          LET L == req[r].data[1]
          IN \A i \in 1..Len(L) : \A j \in 1..Len(enrollments) :
                (/\ L[i].type \in CourseTypes
                 /\ enrollments[j].user_id = req[r].user.id
                 /\ JoinCourse(enrollments[j].course_id).title = L[i].message[2])
                  => L[i].type = IF enrollments[j].progress = 100
                                 THEN "course_completed" ELSE "course_started"

\* C10: in the stats handler a failure of any of the four store queries
\* aborts the handler with a 500; a 200 is sent only when all four succeeded.
C10_StatsFailureAborts ==
    \A r \in Slots :
       (req[r].kind = "stats" /\ req[r].pc = "done" /\ req[r].user # NoUser) =>
          /\ req[r].fault => req[r].status = 500
          /\ req[r].status = 200 => ~req[r].fault

====
